---- MODULE Spec2Model ----
(***************************************************************************)
(* Model of server.js: the upload endpoint, the tool adapter runCommand    *)
(* and the pipeline processVideo (extract audio -> whisper -> burn).       *)
(*                                                                         *)
(* Strings are sequences of tokens, so that Date.now() + '-' + name,       *)
(* path.extname, path.basename and the template strings are computed the   *)
(* way the code computes them.  A path is <<directory>> \o <file name>.    *)
(* Every turn of the event loop is one action: multer naming and storing   *)
(* an upload, the upload handler in a later turn (with the synchronous     *)
(* head of processVideo up to its first await), and one action per exec    *)
(* callback (with the continuation of processVideo up to the next await or *)
(* to its end).  A subprocess runs beside the event loop: writing its      *)
(* output file is a step of its own, before the callback of its exit.      *)
(* The connection handlers only write to the console; which sockets are    *)
(* connected is an input of each request.                                  *)
(***************************************************************************)
EXTENDS Integers, Sequences, FiniteSets, TLC

\* ------------------------------------------------------------------ bounds
MaxJobs == 2        \* accepted uploads in one run, after which it takes no request
MaxFaults == 1      \* subprocess exits other than "exit 0, output written"

\* ------------------------------------------------------- inputs of the model
\* the ids of the sockets in io.sockets.sockets, and the ids requests carry:
\* "s1" is a connected client, "s0" is not (never connected, or gone)
Sockets == {"s1"}
SocketIds == {"s1", "s0"}
OriginalNames == { <<"m", ".", "wav">>, <<"m">> }

\* the value of an absent socket: io.sockets.sockets.get(id) of an unknown id
Undefined == "undefined"

\* ------------------------------------------------------ program constants
UPLOADS_DIR == "uploads/"
OUTPUT_DIR == "outputs/"
DIRNAME == "./"
ffmpegPath == "ffmpeg"
style == "Fontname=Arial,Fontsize=10,PrimaryColour=&H00FFFFFF,OutlineColour=&H00000000,BorderStyle=1,Outline=1,Shadow=0,Bold=0,MarginV=10,Alignment=2"

VARIABLES
    now,        \* Date.now() as it was read last
    jobs,       \* per upload, in the order multer stored them: the request,
                \* and once its handler has run what processVideo was called with
    pc,         \* per upload: "stored" until its handler has run, then the await
                \* processVideo is suspended at, or how it ended
    hist,       \* per job: what its handlers did, in order
    disk,       \* the paths that exist on disk
    response,   \* the HTTP response sent in the turn just run, NoResponse if none
    alive       \* FALSE once the node process has exited

vars == <<now, jobs, pc, hist, disk, response, alive>>

\* --------------------------------------------------------------- path module
\* path.join(dir, name)
PathJoin(dir, name) == <<dir>> \o name

\* index of the last "." of a file name, 0 when it has none
LastDot(name) ==
    LET dots == { i \in 1..Len(name) : name[i] = "." }
    IN  IF dots = {} THEN 0 ELSE CHOOSE i \in dots : \A k \in dots : k <= i

\* path.extname(p): from the last "." of the last component to its end; empty
\* when there is no "." or the only one is the component's first character
ExtName(p) ==
    LET name == Tail(p)
        d == LastDot(name)
    IN  IF d <= 1 THEN <<>> ELSE SubSeq(name, d, Len(name))

\* path.basename(p, ext): the last component, without ext when it ends in ext
Basename(p, ext) ==
    LET name == Tail(p)
        n == Len(name)
        e == Len(ext)
    IN  IF e > 0 /\ e < n /\ SubSeq(name, n - e + 1, n) = ext
        THEN SubSeq(name, 1, n - e)
        ELSE name

\* ------------------------------------------------------------ multer storage
\* filename: Date.now() + '-' + file.originalname
StoredFilename(t, originalname) == <<ToString(t), "-">> \o originalname

\* destination + filename: req.file.path
StoredPath(t, originalname) == PathJoin(UPLOADS_DIR, StoredFilename(t, originalname))

\* ------------------------------------------------- processVideo: derived names
JobId(filePath) == Basename(filePath, ExtName(filePath))
AudioFile(filePath) == PathJoin(UPLOADS_DIR, JobId(filePath) \o <<".", "wav">>)
FinalVideoName(filePath) == <<"subtitled_">> \o JobId(filePath) \o <<".", "mp4">>
FinalVideo(filePath) == PathJoin(OUTPUT_DIR, FinalVideoName(filePath))
GeneratedSrt(filePath) == PathJoin(OUTPUT_DIR, JobId(filePath) \o <<".", "srt">>)
LocalSrtName(filePath) == <<"temp_">> \o JobId(filePath) \o <<".", "srt">>
LocalSrt(filePath) == PathJoin(DIRNAME, LocalSrtName(filePath))
DownloadUrl(filePath) == <<"/download/">> \o FinalVideoName(filePath)

\* the command lines handed to exec
ExtractCmd(filePath) ==
    <<ffmpegPath, "-y", "-i">> \o filePath
        \o <<"-ar 16000 -ac 1 -c:a pcm_s16le">> \o AudioFile(filePath)
WhisperCmd(filePath) ==
    <<"whisper">> \o AudioFile(filePath)
        \o <<"--model base --output_format srt --output_dir", OUTPUT_DIR>>
BurnCmd(filePath) ==
    <<ffmpegPath, "-y", "-i">> \o filePath
        \o <<"-vf subtitles=">> \o LocalSrtName(filePath)
        \o <<":force_style=", style>> \o FinalVideo(filePath)

\* ------------------------------------------------------------------ history
\* one entry of hist: who did it, what was done, with what
Ev(by, op, a, b) == [by |-> by, op |-> op, a |-> a, b |-> b]

\* socket.emit(kind, payload)
Emit(by, kind, payload) == Ev(by, "emit", kind, payload)

\* what a segment of processVideo leaves behind
Outcome(p, h, d) == [pc |-> p, h |-> h, disk |-> d]

\* undefined.emit(...): the TypeError of a property read on undefined
TypeErrorMessage == <<"Cannot read properties of undefined (reading 'emit')">>

\* the error argument of the exec callback: null, the error of a non-zero
\* exit, the error of a subprocess killed for printing more than maxBuffer
\* on stdout or on stderr, or the error of a shell that could not be spawned
\* (out of file descriptors, say), which exec reports to the callback
NoError == "null"
ExecErrors == {"exit", "stdout maxBuffer", "stderr maxBuffer", "spawn"}

\* the spawn failures exec does not report to the callback but throws at its
\* caller (out of memory, say)
ExecThrows == {"spawn throw"}

\* the ways the launch of a subprocess fails: both are over within the turn
\* that calls exec, the reported one on the next tick
SpawnErrors == {"spawn"} \cup ExecThrows

\* error.message of the error exec calls back with or throws
ExecErrorMessage(cmd, error) ==
    CASE error = "exit" -> <<"Command failed: ">> \o cmd
      [] error = "stdout maxBuffer" -> <<"stdout maxBuffer length exceeded">>
      [] error = "stderr maxBuffer" -> <<"stderr maxBuffer length exceeded">>
      [] error = "spawn" -> <<"spawn /bin/sh EMFILE">>
      [] error = "spawn throw" -> <<"spawn ENOMEM">>

MissingSrtMessage == <<"SRT file was not generated.">>

\* -------------------------------------------------------------- runCommand
\* runCommand, launch: exec(command, callback)
RunCommandLaunch(tool, cmd) == <<Ev("runCommand", "exec", tool, cmd)>>

\* runCommand, the exec callback: log the error to the socket if there is
\* one, then reject; resolve otherwise
RunCommandCallback(tool, cmd, socket, error) ==
    IF error # NoError
    THEN (IF socket # Undefined
          THEN <<Emit("runCommand", "log", <<"Error: ">> \o ExecErrorMessage(cmd, error))>>
          ELSE <<>>)
         \o <<Ev("runCommand", "settle", tool, <<"reject">> \o ExecErrorMessage(cmd, error))>>
    ELSE <<Ev("runCommand", "settle", tool, <<"resolve">>)>>

\* runCommand, exec throwing inside the promise executor: the promise is
\* rejected with what was thrown and the callback is never called
RunCommandThrow(tool, cmd, error) ==
    <<Ev("runCommand", "settle", tool, <<"reject">> \o ExecErrorMessage(cmd, error))>>

\* how the promise of runCommand is settled, by the callback or by the throw
RunCommandSettle(tool, cmd, socket, error) ==
    IF error \in ExecThrows
    THEN RunCommandThrow(tool, cmd, error)
    ELSE RunCommandCallback(tool, cmd, socket, error)

\* ------------------------------------------------------------ processVideo
\* Catch with a fault: the log goes out before the error event
Catch_LogFirst(socket, message, d) ==
    Outcome("failed",
            <<Emit("processVideo", "log", <<"Error: ">> \o message),
              Emit("processVideo", "error", message)>>, d)

\* the catch block: socket.emit('error', ...) and the mirrored log.  With no
\* socket the emit itself throws, nothing catches it, and the promise of
\* processVideo rejects.
Catch(socket, message, d) ==
    IF socket = Undefined
    THEN Outcome("rejected",
                 <<Ev("processVideo", "reject", "TypeError", TypeErrorMessage)>>, d)
    ELSE Outcome("failed",
                 <<Emit("processVideo", "error", message),
                   Emit("processVideo", "log", <<"Error: ">> \o message)>>, d)

\* ProcessVideoStart with a fault: the extraction is not awaited
ProcessVideoStart_NoAwait(filePath, socket, d) ==
    Outcome("whisper",
            <<Emit("processVideo", "log", <<"Step 1: Extracting audio...">>),
              Emit("processVideo", "progress", <<10>>)>>
            \o RunCommandLaunch("extract", ExtractCmd(filePath))
            \o RunCommandLaunch("whisper", WhisperCmd(filePath)), d)

\* from the call to the first await: step 1 and the launch of the extraction
ProcessVideoStart(filePath, socket, d) ==
    IF socket = Undefined
    THEN Catch(socket, TypeErrorMessage, d)
    ELSE Outcome("extract",
                 <<Emit("processVideo", "log", <<"Step 1: Extracting audio...">>),
                   Emit("processVideo", "progress", <<10>>)>>
                 \o RunCommandLaunch("extract", ExtractCmd(filePath)), d)

\* AfterExtract with a fault: a progress value below the one already sent
AfterExtract_LowProgress(filePath, socket, d) ==
    Outcome("whisper",
            <<Emit("processVideo", "log", <<"Audio extracted.">>),
              Emit("processVideo", "progress", <<5>>)>>
            \o RunCommandLaunch("whisper", WhisperCmd(filePath)), d)

\* after the extraction resolved: step 2 and the launch of whisper
AfterExtract(filePath, socket, d) ==
    IF socket = Undefined
    THEN Catch(socket, TypeErrorMessage, d)
    ELSE Outcome("whisper",
                 <<Emit("processVideo", "log", <<"Audio extracted.">>),
                   Emit("processVideo", "log", <<"Step 2: Generating subtitles (Whisper)...">>),
                   Emit("processVideo", "progress", <<30>>)>>
                 \o RunCommandLaunch("whisper", WhisperCmd(filePath)), d)

\* AfterWhisper with a fault: the subtitle file is not checked for
AfterWhisper_NoCheck(filePath, socket, d) ==
    Outcome("burn",
            <<Emit("processVideo", "log", <<"Subtitles generated.">>),
              Emit("processVideo", "progress", <<60>>),
              Ev("processVideo", "copyFile", "temp", LocalSrt(filePath))>>
            \o RunCommandLaunch("burn", BurnCmd(filePath)),
            d \cup {LocalSrt(filePath)})

\* AfterWhisper with a fault: the subtitle file is checked for before step 3
\* is announced
AfterWhisper_CheckFirst(filePath, socket, d) ==
    IF socket = Undefined
    THEN Catch(socket, TypeErrorMessage, d)
    ELSE IF GeneratedSrt(filePath) \in d
         THEN Outcome("burn",
                      <<Emit("processVideo", "log", <<"Subtitles generated.">>),
                        Emit("processVideo", "log", <<"Step 3: Burning subtitles into video...">>),
                        Emit("processVideo", "progress", <<60>>),
                        Ev("processVideo", "copyFile", "temp", LocalSrt(filePath))>>
                      \o RunCommandLaunch("burn", BurnCmd(filePath)),
                      d \cup {LocalSrt(filePath)})
         ELSE LET c == Catch(socket, MissingSrtMessage, d)
              IN  Outcome(c.pc,
                          <<Emit("processVideo", "log", <<"Subtitles generated.">>)>> \o c.h,
                          c.disk)

\* after whisper resolved: step 3, the copy of the subtitle file (or the
\* missing-file error) and the launch of the burn
AfterWhisper(filePath, socket, d) ==
    IF socket = Undefined
    THEN Catch(socket, TypeErrorMessage, d)
    ELSE LET head == <<Emit("processVideo", "log", <<"Subtitles generated.">>),
                       Emit("processVideo", "log", <<"Step 3: Burning subtitles into video...">>),
                       Emit("processVideo", "progress", <<60>>)>>
         IN  IF GeneratedSrt(filePath) \in d
             THEN Outcome("burn",
                          head \o <<Ev("processVideo", "copyFile", "temp",
                                       LocalSrt(filePath))>>
                               \o RunCommandLaunch("burn", BurnCmd(filePath)),
                          d \cup {LocalSrt(filePath)})
             ELSE LET c == Catch(socket, MissingSrtMessage, d)
                  IN  Outcome(c.pc, head \o c.h, c.disk)

\* cleanup(): remove the audio file if it exists
Cleanup(filePath, d) ==
    IF AudioFile(filePath) \in d
    THEN [h |-> <<Ev("processVideo", "unlink", "cleanup", AudioFile(filePath))>>,
          disk |-> d \ {AudioFile(filePath)}]
    ELSE [h |-> <<>>, disk |-> d]

\* removal of the temporary subtitle copy after the burn
RemoveLocalSrt(filePath, d) ==
    IF LocalSrt(filePath) \in d
    THEN [h |-> <<Ev("processVideo", "unlink", "temp", LocalSrt(filePath))>>,
          disk |-> d \ {LocalSrt(filePath)}]
    ELSE [h |-> <<>>, disk |-> d]

\* after the burn resolved: remove the temporary copy, report, clean up
AfterBurn(filePath, socket, d) ==
    LET t == RemoveLocalSrt(filePath, d)
    IN  IF socket = Undefined
        THEN LET c == Catch(socket, TypeErrorMessage, t.disk)
             IN  Outcome(c.pc, t.h \o c.h, c.disk)
        ELSE LET k == Cleanup(filePath, t.disk)
             IN  Outcome("completed",
                         t.h \o <<Emit("processVideo", "log", <<"Video processing complete!">>),
                                  Emit("processVideo", "progress", <<100>>),
                                  Emit("processVideo", "complete", DownloadUrl(filePath))>>
                             \o k.h,
                         k.disk)

\* err.message of an fs.unlinkSync that the file system refused
UnlinkErrorMessage(path) == <<"unlink failed: ">> \o path

\* after the burn resolved, when fs.unlinkSync(audioFile) in cleanup() throws:
\* everything up to the complete event has been done, the audio file stays,
\* and the exception lands in the catch block
AfterBurnUnlinkFails(filePath, socket, d) ==
    LET t == RemoveLocalSrt(filePath, d)
        c == Catch(socket, UnlinkErrorMessage(AudioFile(filePath)), t.disk)
    IN  Outcome(c.pc,
                t.h \o <<Emit("processVideo", "log", <<"Video processing complete!">>),
                         Emit("processVideo", "progress", <<100>>),
                         Emit("processVideo", "complete", DownloadUrl(filePath))>>
                    \o c.h,
                c.disk)

\* AfterToolError with a fault: the error is swallowed
AfterToolError_Silent(message, socket, d) == Outcome("failed", <<>>, d)

\* a rejected runCommand lands in the catch block with the message of the
\* exec error
AfterToolError(message, socket, d) == Catch(socket, message, d)

\* ------------------------------------------------------------ POST /upload
\* req.file of a request that carries no file
NoFile == <<>>

\* no response: nothing was run yet, or the turn just run sent none
NoResponse == [status |-> 0, body |-> [none |-> TRUE]]

\* io.sockets.sockets.get(socketId)
SocketOf(socketId, conn) == IF socketId \in conn THEN socketId ELSE Undefined

\* req.file as multer's disk storage leaves it: the name is made of the
\* clock read when the file part arrives, and the handler runs once the body
\* has been written
MulterFile(t, originalname) ==
    [path |-> StoredPath(t, originalname),
     filename |-> StoredFilename(t, originalname),
     originalname |-> originalname]

\* UploadHandler with a fault: the 400 answer does not return
UploadHandler_NoReturn(file, socketId, conn, d) ==
    LET filePath == IF file = NoFile THEN <<UPLOADS_DIR>> ELSE file.path
        name == IF file = NoFile THEN NoFile ELSE file.filename
        socket == SocketOf(socketId, conn)
        r == ProcessVideoStart(filePath, socket, d)
    IN  [launched |-> TRUE,
         response |-> IF file = NoFile
                      THEN [status |-> 400, body |-> [error |-> "No file uploaded"]]
                      ELSE [status |-> 200,
                            body |-> [message |-> "Upload successful, processing started",
                                      jobId |-> name]],
         job |-> [filePath |-> filePath, originalName |-> NoFile, socket |-> socket],
         pc |-> r.pc,
         h |-> r.h \o <<Ev("upload", "respond", "200", name)>>,
         disk |-> r.disk]

\* UploadHandler with a fault: processVideo throws into the handler, which then
\* never answers
UploadHandler_SyncThrow(file, socketId, conn, d) ==
    IF file = NoFile
    THEN [launched |-> FALSE,
          response |-> [status |-> 400, body |-> [error |-> "No file uploaded"]],
          job |-> NoFile, pc |-> "none", h |-> <<>>, disk |-> d]
    ELSE LET socket == SocketOf(socketId, conn)
             r == ProcessVideoStart(file.path, socket, d)
         IN  [launched |-> TRUE,
              response |-> [status |-> 200,
                            body |-> [message |-> "Upload successful, processing started",
                                      jobId |-> file.filename]],
              job |-> [filePath |-> file.path, originalName |-> file.originalname,
                       socket |-> socket],
              pc |-> r.pc,
              h |-> IF r.pc = "rejected"
                    THEN r.h
                    ELSE r.h \o <<Ev("upload", "respond", "200", file.filename)>>,
              disk |-> r.disk]

\* the handler of POST /upload for the request whose req.file is file (NoFile
\* if it carried none): the answer, whether processVideo was called, and what
\* the call did before the answer was sent
UploadHandler(file, socketId, conn, d) ==
    IF file = NoFile
    THEN [launched |-> FALSE,
          response |-> [status |-> 400, body |-> [error |-> "No file uploaded"]],
          job |-> NoFile, pc |-> "none", h |-> <<>>, disk |-> d]
    ELSE LET socket == SocketOf(socketId, conn)
             greet == IF socket = Undefined
                      THEN <<>>
                      ELSE <<Emit("upload", "log", <<"Received file. Starting process...">>)>>
             r == ProcessVideoStart(file.path, socket, d)
         IN  [launched |-> TRUE,
              response |-> [status |-> 200,
                            body |-> [message |-> "Upload successful, processing started",
                                      jobId |-> file.filename]],
              job |-> [filePath |-> file.path, originalName |-> file.originalname,
                       socket |-> socket],
              pc |-> r.pc,
              h |-> greet \o r.h
                      \o <<Ev("upload", "respond", "200", file.filename)>>,
              disk |-> r.disk]

\* whether the process lives on after a turn: the runtime of the image,
\* node:20, throws on an unhandled rejection and the process exits
ExitOutcomes(p) == IF p = "rejected" THEN {FALSE} ELSE {TRUE}

\* ------------------------------------------------------------------ actions
Init ==
    /\ now = 1
    /\ jobs = <<>>
    /\ pc = <<>>
    /\ hist = <<>>
    /\ disk = {}
    /\ response = NoResponse
    /\ alive = TRUE

\* the uploads so far, handled or not
Accepted == Len(jobs)

\* req.file and req.body.socketId of a stored upload, as the handler will
\* find them
StoredRequest(file, socketId) ==
    [filePath |-> file.path, filename |-> file.filename,
     originalName |-> file.originalname, socketId |-> socketId]

\* req.file of a stored upload
FileOf(u) ==
    [path |-> u.filePath, filename |-> u.filename, originalname |-> u.originalName]

\* some upload was named with the current reading of the clock
NowWasRead == \E j \in 1..Len(jobs) : jobs[j].filePath[2] = ToString(now)

\* what Date.now() may return at the next read: the millisecond of the last
\* read or a later one.  Only whether two uploads fall into the same
\* millisecond matters, so a later one is the next, and the clock is looked
\* at only where the code reads it
ClockReadings == IF NowWasRead THEN {now, now + 1} ELSE {now}

\* POST /upload without a file: multer stores nothing and the handler answers.
\* The run takes requests until MaxJobs uploads have been accepted.
UploadNoFile(socketId) ==
    /\ alive
    /\ Accepted < MaxJobs
    /\ LET r == UploadHandler(NoFile, socketId, Sockets, disk)
       IN  /\ response' = r.response
           /\ jobs' = IF r.launched THEN Append(jobs, r.job) ELSE jobs
           /\ pc' = IF r.launched THEN Append(pc, r.pc) ELSE pc
           /\ hist' = IF r.launched THEN Append(hist, r.h) ELSE hist
           /\ disk' = r.disk
           /\ alive' \in ExitOutcomes(r.pc)
    /\ UNCHANGED now

\* POST /upload with a file, the multer middleware: the file is named after
\* the clock and written to the uploads directory; the handler is still to run
StoreUpload(file, socketId) ==
    /\ alive
    /\ Accepted < MaxJobs
    /\ \E t \in ClockReadings :
           /\ now' = t
           /\ jobs' = Append(jobs, StoredRequest(MulterFile(t, file), socketId))
           /\ disk' = disk \cup {StoredPath(t, file)}
    /\ pc' = Append(pc, "stored")
    /\ hist' = Append(hist, <<>>)
    /\ response' = NoResponse
    /\ UNCHANGED alive

\* the exits at which a subprocess did not both exit with 0 and leave its
\* output: the settle entries not preceded by the write of a resolved exit
FaultsOf(h) ==
    Cardinality({ i \in 1..Len(h) :
                    /\ h[i].op = "settle"
                    /\ ~(h[i].b[1] = "resolve" /\ h[i - 1].op = "write") })

RECURSIVE SumFaults(_, _)
SumFaults(hs, n) == IF n = 0 THEN 0 ELSE FaultsOf(hs[n]) + SumFaults(hs, n - 1)

\* the number of such exits so far, over all jobs
Faults == SumFaults(hist, Len(hist))

\* the subprocesses of the pipeline
Tools == {"extract", "whisper", "burn"}

\* ffmpeg refuses an output that is its input and leaves the file as it is
Refused(tool, filePath) == tool = "extract" /\ AudioFile(filePath) = filePath

\* how a subprocess that was spawned may exit
ToolErrors(tool, filePath) ==
    IF Refused(tool, filePath)
    THEN ExecErrors \ SpawnErrors
    ELSE (ExecErrors \ SpawnErrors) \cup {NoError}

\* how the launch of a subprocess may go
LaunchOutcomes == SpawnErrors \cup {NoError}

ToolOutput(tool, filePath) ==
    CASE tool = "extract" -> AudioFile(filePath)
      [] tool = "whisper" -> GeneratedSrt(filePath)
      [] tool = "burn" -> FinalVideo(filePath)

ToolCmd(tool, filePath) ==
    CASE tool = "extract" -> ExtractCmd(filePath)
      [] tool = "whisper" -> WhisperCmd(filePath)
      [] tool = "burn" -> BurnCmd(filePath)

\* processVideo resumed after the await on runCommand(tool)
Resume(tool, filePath, socket, error, d) ==
    IF error # NoError
    THEN AfterToolError(ExecErrorMessage(ToolCmd(tool, filePath), error), socket, d)
    ELSE CASE tool = "extract" -> AfterExtract(filePath, socket, d)
           [] tool = "whisper" -> AfterWhisper(filePath, socket, d)
           [] tool = "burn" -> AfterBurn(filePath, socket, d)

\* the position in h of the last call of exec
LastExec(h) ==
    CHOOSE x \in 1..Len(h) :
        /\ h[x].op = "exec"
        /\ \A k \in (x + 1)..Len(h) : h[k].op # "exec"

\* a turn that has called runCommand and left processVideo at the await, when
\* the subprocess cannot be spawned (r is the turn with a subprocess spawned).
\* If exec throws, the promise is rejected inside runCommand, before whatever
\* the turn does after the call (the handler's answer); if exec reports the
\* failure, the callback is run on the next tick, after all of that.  The
\* catch block is run last, before any other callback.
Launch(r, filePath, socket, spawn) ==
    IF r.pc \in Tools /\ spawn # NoError
    THEN LET cmd == ToolCmd(r.pc, filePath)
             c == AfterToolError(ExecErrorMessage(cmd, spawn), socket, r.disk)
             x == LastExec(r.h)
         IN  [r EXCEPT !.pc = c.pc,
                       !.h = IF spawn \in ExecThrows
                             THEN SubSeq(r.h, 1, x)
                                      \o RunCommandThrow(r.pc, cmd, spawn)
                                      \o SubSeq(r.h, x + 1, Len(r.h))
                                      \o c.h
                             ELSE r.h \o RunCommandCallback(r.pc, cmd, socket, spawn) \o c.h,
                       !.disk = c.disk]
    ELSE r

\* POST /upload with a file, the handler, in a later turn than the store
HandleUpload(k, spawn) ==
    /\ alive
    /\ k \in 1..Len(jobs)
    /\ pc[k] = "stored"
    /\ LET u == UploadHandler(FileOf(jobs[k]), jobs[k].socketId, Sockets, disk)
           r == IF u.launched THEN Launch(u, u.job.filePath, u.job.socket, spawn) ELSE u
       IN  /\ spawn # NoError => u.pc \in Tools
           /\ spawn # NoError => Faults < MaxFaults
           /\ response' = r.response
           /\ jobs' = IF r.launched THEN [jobs EXCEPT ![k] = r.job] ELSE jobs
           /\ pc' = [pc EXCEPT ![k] = r.pc]
           /\ hist' = [hist EXCEPT ![k] = r.h]
           /\ disk' = r.disk
           /\ alive' \in ExitOutcomes(r.pc)
    /\ UNCHANGED now

\* the running subprocess of the tool has written its output
HasWritten(h, tool) ==
    \E i \in 1..Len(h) : h[i].op = "write" /\ h[i].a = tool

\* the subprocess of job j writes its output file while it runs; it may also
\* never do so, whether it exits with 0 or not (the code looks at neither)
ToolWrite(j, tool) ==
    /\ alive
    /\ j \in 1..Len(jobs)
    /\ pc[j] = tool
    /\ ~HasWritten(hist[j], tool)
    /\ ~Refused(tool, jobs[j].filePath)
    /\ LET out == ToolOutput(tool, jobs[j].filePath)
       IN  /\ hist' = [hist EXCEPT ![j] = @ \o <<Ev("tool", "write", tool, out)>>]
           /\ disk' = disk \cup {out}
    /\ response' = NoResponse
    /\ UNCHANGED <<now, jobs, pc, alive>>

\* the subprocess of job j has exited: the exec callback and the continuation,
\* with the launch of the next subprocess if the continuation gets there
ToolExit(j, tool, error) ==
    /\ alive
    /\ pc[j] = tool
    /\ LET filePath == jobs[j].filePath
           socket == jobs[j].socket
           u == Resume(tool, filePath, socket, error, disk)
           faulty == (error # NoError \/ ~HasWritten(hist[j], tool))
                         /\ ~Refused(tool, filePath)
           faults == Faults
       IN  \E spawn \in (IF u.pc \in Tools THEN LaunchOutcomes ELSE {NoError}) :
               LET r == Launch(u, filePath, socket, spawn)
                   n == (IF faulty THEN 1 ELSE 0) + (IF spawn # NoError THEN 1 ELSE 0)
               IN  /\ n > 0 => faults + n <= MaxFaults
                   /\ pc' = [pc EXCEPT ![j] = r.pc]
                   /\ hist' = [hist EXCEPT ![j] = @
                                   \o RunCommandCallback(tool, ToolCmd(tool, filePath),
                                                         socket, error)
                                   \o r.h]
                   /\ disk' = r.disk
                   /\ alive' \in ExitOutcomes(r.pc)
    /\ response' = NoResponse
    /\ UNCHANGED <<now, jobs>>

ExtractExit ==
    \E j \in 1..Len(jobs) :
        \E error \in ToolErrors("extract", jobs[j].filePath) : ToolExit(j, "extract", error)

WhisperExit ==
    \E j \in 1..Len(jobs) :
        \E error \in ToolErrors("whisper", jobs[j].filePath) : ToolExit(j, "whisper", error)

BurnExit ==
    \E j \in 1..Len(jobs) :
        \E error \in ToolErrors("burn", jobs[j].filePath) : ToolExit(j, "burn", error)

Next ==
    \/ \E s \in SocketIds : UploadNoFile(s)
    \/ \E f \in OriginalNames, s \in SocketIds : StoreUpload(f, s)
    \/ \E k \in 1..MaxJobs, spawn \in LaunchOutcomes : HandleUpload(k, spawn)
    \/ \E j \in 1..MaxJobs, tool \in Tools : ToolWrite(j, tool)
    \/ ExtractExit
    \/ WhisperExit
    \/ BurnExit

Spec == Init /\ [][Next]_vars

\* ------------------------------------------------- runCommand on its own
\* runCommand called with every command of the pipeline and with and without
\* a socket (processVideo itself never reaches it without one)

InitRunCommand ==
    /\ now \in 1..(MaxJobs + 1)
    /\ \E file \in OriginalNames, socketId \in SocketIds, tool \in Tools :
           LET filePath == StoredPath(now, file)
           IN  /\ jobs = <<[filePath |-> filePath, originalName |-> file,
                            socket |-> SocketOf(socketId, Sockets)]>>
               /\ pc = <<tool>>
               /\ hist = <<RunCommandLaunch(tool, ToolCmd(tool, filePath))>>
    /\ disk = {}
    /\ response = NoResponse
    /\ alive = TRUE

\* the subprocess exits, or was never spawned, and the promise is settled
RunCommandSettles ==
    /\ pc[1] \in Tools
    /\ \E error \in ToolErrors(pc[1], jobs[1].filePath) \cup SpawnErrors :
           hist' = [hist EXCEPT ![1] =
                        @ \o RunCommandSettle(pc[1], ToolCmd(pc[1], jobs[1].filePath),
                                              jobs[1].socket, error)]
    /\ pc' = <<"settled">>
    /\ UNCHANGED <<now, jobs, disk, response, alive>>

SpecRunCommand == InitRunCommand /\ [][RunCommandSettles]_vars

\* ------------------------------------------- a file system that can refuse
\* the burn of job j exits with success and the removal of the audio file in
\* cleanup() is refused by the file system
BurnExitUnlinkFails ==
    \E j \in 1..Len(jobs) :
        /\ alive
        /\ pc[j] = "burn"
        /\ ~HasWritten(hist[j], "burn") => Faults < MaxFaults
        /\ jobs[j].socket # Undefined
        /\ LET filePath == jobs[j].filePath
               socket == jobs[j].socket
               r == AfterBurnUnlinkFails(filePath, socket, disk)
           IN  /\ AudioFile(filePath) \in disk
               /\ pc' = [pc EXCEPT ![j] = r.pc]
               /\ hist' = [hist EXCEPT ![j] = @
                               \o RunCommandCallback("burn", ToolCmd("burn", filePath),
                                                     socket, NoError)
                               \o r.h]
               /\ disk' = r.disk
               /\ alive' \in ExitOutcomes(r.pc)
        /\ response' = NoResponse
        /\ UNCHANGED <<now, jobs>>

NextFs ==
    \/ Next
    \/ BurnExitUnlinkFails

SpecFs == Init /\ [][NextFs]_vars

\* ------------------------------------------- subprocesses that always exit
\* the subprocess job j is waiting for exits
JobToolExit(j) ==
    /\ j \in 1..Len(jobs)
    /\ \E tool \in Tools :
           \E error \in ToolErrors(tool, jobs[j].filePath) : ToolExit(j, tool, error)

\* the subprocess job j is waiting for moves on: it writes or it exits
JobToolStep(j) ==
    \/ JobToolExit(j)
    \/ \E tool \in Tools : ToolWrite(j, tool)

\* every launched subprocess eventually exits and, the server still running,
\* its exec callback is run
FairSpec == Spec /\ \A j \in 1..MaxJobs : WF_vars(JobToolStep(j))

\* ------------------------------------------------- reading a job's history
\* the entries of h with the given operation and first argument
Entries(h, op, a) ==
    LET Is(e) == e.op = op /\ e.a = a
    IN  SelectSeq(h, Is)

\* the events of one kind emitted in h
Emitted(h, kind) == Entries(h, "emit", kind)

\* the progress values emitted in h, in order
ProgressOf(h) ==
    LET p == Emitted(h, "progress")
    IN  [i \in 1..Len(p) |-> p[i].b[1]]

\* the number of launches of a tool in h
Launches(h, tool) == Len(Entries(h, "exec", tool))

\* the subprocess of the tool has exited and runCommand settled this way
Settled(h, tool, how) ==
    \E i \in 1..Len(h) : h[i].op = "settle" /\ h[i].a = tool /\ h[i].b[1] = how

AllSucceeded(h) ==
    /\ Settled(h, "extract", "resolve")
    /\ Settled(h, "whisper", "resolve")
    /\ Settled(h, "burn", "resolve")

NonDecreasing(s) == \A i \in 1..(Len(s) - 1) : s[i] <= s[i + 1]

\* the uploads whose handler has called processVideo
Jobs == { j \in 1..Len(jobs) : pc[j] \notin {"stored", "none"} }

\* ------------------------------------------------------------------ claims

\* C1: the progress events of one job are non-decreasing in every execution,
\* failing ones included, and are exactly 10, 30, 60, 100 when all three
\* tools succeeded.
C1_ProgressOrder ==
    \A j \in Jobs :
        /\ NonDecreasing(ProgressOf(hist[j]))
        /\ AllSucceeded(hist[j]) => ProgressOf(hist[j]) = <<10, 30, 60, 100>>

C1_Witness ==
    \E j \in Jobs : AllSucceeded(hist[j]) /\ Len(ProgressOf(hist[j])) = 4

\* C2: once the audio extraction of a job has failed, the job never launches
\* whisper or the burn, and it has emitted exactly one error event.
C2_ExtractFailureStops ==
    \A j \in Jobs :
        Settled(hist[j], "extract", "reject") =>
            /\ Launches(hist[j], "whisper") = 0
            /\ Launches(hist[j], "burn") = 0
            /\ Len(Emitted(hist[j], "error")) = 1

C2_Witness ==
    \E j \in Jobs : Settled(hist[j], "extract", "reject") /\ pc[j] = "failed"

\* C3: a job whose whisper exited successfully while no subtitle file exists
\* at <outputs>/<jobId>.srt has ended in "failed" with the missing-file error,
\* and a job that failed that way never launched the burn.  (Nothing removes a
\* subtitle file, so one that is absent now was absent when it was looked for.)
MissingSrtFailure(j) ==
    \E i \in 1..Len(hist[j]) :
        /\ hist[j][i].op = "emit"
        /\ hist[j][i].a = "error"
        /\ hist[j][i].b = MissingSrtMessage

C3_MissingSrtFails ==
    \A j \in Jobs :
        /\ ( /\ Settled(hist[j], "whisper", "resolve")
             /\ GeneratedSrt(jobs[j].filePath) \notin disk )
           => ( /\ pc[j] = "failed"
                /\ MissingSrtFailure(j)
                /\ Launches(hist[j], "burn") = 0 )
        /\ MissingSrtFailure(j)
           => ( /\ pc[j] = "failed"
                /\ Launches(hist[j], "burn") = 0 )

C3_Witness ==
    \E j \in Jobs :
        /\ MissingSrtFailure(j)
        /\ Settled(hist[j], "whisper", "resolve")
        /\ GeneratedSrt(jobs[j].filePath) \notin disk

\* C4: with no subscriber resolved for an upload every emission is a silent
\* no-op: nothing is raised out of processVideo and the job launches its
\* tools as it would with a subscriber.
C4_AbsentSubscriberIsSilent ==
    \A j \in Jobs :
        jobs[j].socket = Undefined =>
            /\ pc[j] # "rejected"
            /\ Entries(hist[j], "reject", "TypeError") = <<>>
            /\ Launches(hist[j], "extract") = 1

\* C5: once a job is completed, neither its audio file nor its temporary
\* subtitle copy exists on disk.
C5_NoIntermediatesAfterCompleted ==
    \A j \in Jobs :
        pc[j] = "completed" =>
            /\ AudioFile(jobs[j].filePath) \notin disk
            /\ LocalSrt(jobs[j].filePath) \notin disk

\* the paths a job's handlers and subprocesses wrote, copied to or removed
Touched(h) ==
    { h[i].b : i \in { k \in 1..Len(h) : h[k].op \in {"write", "copyFile", "unlink"} } }

\* C6: two distinct uploads never write or delete the same path (their job
\* ids being unique).
C6_DisjointPaths ==
    \A i, j \in Jobs :
        i # j => Touched(hist[i]) \cap Touched(hist[j]) = {}

\* C7: the jobId of the acknowledgement is the job id processVideo derives
\* for that upload.
C7_AckCarriesJobId ==
    \A j \in Jobs :
        \A i \in 1..Len(hist[j]) :
            hist[j][i].op = "respond" => hist[j][i].b = JobId(jobs[j].filePath)

\* C8 as stated: every accepted upload is acknowledged (no pipeline error is
\* raised into the handler) and no event of the pipeline and no subprocess
\* launch of the job happens before the acknowledgement.
C8_AckBeforeProcessing ==
    \A j \in Jobs :
        /\ \E i \in 1..Len(hist[j]) : hist[j][i].op = "respond"
        /\ \A i, k \in 1..Len(hist[j]) :
               ( /\ hist[j][i].op = "respond"
                 /\ hist[j][k].op \in {"emit", "exec"}
                 /\ hist[j][k].by \in {"processVideo", "runCommand"} )
               => i < k

\* what may precede the acknowledgement: the greeting of the handler and the
\* synchronous head of processVideo
BeforeAck(e) ==
    \/ e.op = "emit" /\ e.a = "log" /\ e.by \in {"upload", "processVideo"}
    \/ e.op = "emit" /\ e.a = "progress" /\ e.b = <<10>>
    \/ e.op = "exec" /\ e.a = "extract"
    \/ e.op = "reject"

\* h[k] is the rejection of runCommand's promise by exec throwing in the call
\* of the extraction at h[k - 1]: no subprocess was spawned
ThrownByExec(h, k) ==
    /\ k > 1
    /\ h[k].op = "settle"
    /\ h[k - 1].op = "exec" /\ h[k - 1].a = "extract"
    /\ \E e \in ExecThrows : h[k].b = <<"reject">> \o ExecErrorMessage(h[k - 1].b, e)

\* C8 amended: every accepted upload is acknowledged in the handler turn that
\* calls processVideo (no pipeline error is raised into the handler); before
\* the acknowledgement the job has done no more than the head of processVideo
\* (step-1 log, progress 10, the call of exec for the extraction and, when
\* exec throws in that call, the rejection of runCommand's promise; or the
\* rejection with no subscriber): every callback of exec (the exit of a
\* subprocess or a reported spawn failure), every file operation and the catch
\* block follow the acknowledgement.
C8_AckInLaunchTurn ==
    \A j \in Jobs :
        \E i \in 1..Len(hist[j]) :
            /\ hist[j][i].op = "respond"
            /\ \A k \in 1..(i - 1) : BeforeAck(hist[j][k]) \/ ThrownByExec(hist[j], k)
            /\ Len(SelectSeq(SubSeq(hist[j], 1, i), BeforeAck)) <= 4
            /\ \A k \in 1..Len(hist[j]) :
                   /\ hist[j][k].op \in {"write", "copyFile", "unlink"} => i < k
                   /\ hist[j][k].op = "settle" => i < k \/ ThrownByExec(hist[j], k)
                   /\ (hist[j][k].op = "emit" /\ hist[j][k].a \in {"error", "complete"})
                          => i < k

C8_Witness ==
    \E j \in Jobs :
        \E i, k, l \in 1..Len(hist[j]) :
            /\ k < i /\ i < l
            /\ hist[j][k].op = "exec"
            /\ hist[j][i].op = "respond"
            /\ hist[j][l].op = "settle"

\* the subprocesses of h[1..n] that were launched and have not exited
InFlight(h, n) ==
    Cardinality({ k \in 1..n : h[k].op = "exec" })
        - Cardinality({ k \in 1..n : h[k].op = "settle" })

\* the launches and the exits of h, in order
LaunchesAndExits(h) ==
    LET Is(e) == e.op \in {"exec", "settle"}
    IN  SelectSeq(h, Is)

\* no prefix of h has more than one subprocess in flight, or fewer than none:
\* launches and exits alternate, a launch first
AtMostOneInFlight(h) ==
    LET es == LaunchesAndExits(h)
    IN  \A i \in 1..Len(es) : es[i].op = IF i % 2 = 1 THEN "exec" ELSE "settle"

\* C9: within one job at most one subprocess is in flight, each tool is
\* launched at most once, and whisper (the burn) is launched only after the
\* extraction (whisper) has exited successfully.
C9_SequentialStages ==
    \A j \in Jobs :
        LET h == hist[j]
        IN  /\ \A tool \in {"extract", "whisper", "burn"} : Launches(h, tool) <= 1
            /\ AtMostOneInFlight(h)
            /\ \A k \in 1..Len(h) :
                   (h[k].op = "exec" /\ h[k].a = "whisper")
                       => Settled(SubSeq(h, 1, k - 1), "extract", "resolve")
            /\ \A k \in 1..Len(h) :
                   (h[k].op = "exec" /\ h[k].a = "burn")
                       => Settled(SubSeq(h, 1, k - 1), "whisper", "resolve")

C9_Witness ==
    \E j \in Jobs :
        /\ pc[j] = "burn"
        /\ Launches(hist[j], "burn") = 1
        /\ InFlight(hist[j], Len(hist[j])) = 1

\* C10: a request without a file is answered with a client error and changes
\* nothing else: no job, no subprocess, no event, no file; a request with a
\* file launches one job and is answered with { message, jobId }.
C10_Step ==
    /\ (response' # response /\ response'.status = 400)
           => /\ DOMAIN response'.body = {"error"}
              /\ UNCHANGED <<jobs, pc, hist, disk>>
    /\ Jobs' # Jobs
           => /\ response'.status = 200
              /\ DOMAIN response'.body = {"message", "jobId"}
              /\ Cardinality(Jobs') = Cardinality(Jobs) + 1

C10_NoFileNoJob == [][C10_Step]_vars

C10_Witness == response.status = 400 /\ Jobs # {}


\* the arrival time Date.now() put into a stored path
ArrivalOf(filePath) == filePath[2]

\* C11: two uploads that arrive at the same time and differ only in the name
\* the client gave get the same output file name and the same command lines:
\* neither depends on the client's name.
C11_OutputIndependentOfName ==
    \A i, j \in Jobs :
        ArrivalOf(jobs[i].filePath) = ArrivalOf(jobs[j].filePath) =>
            /\ FinalVideoName(jobs[i].filePath) = FinalVideoName(jobs[j].filePath)
            /\ \A tool \in {"extract", "whisper", "burn"} :
                   (Launches(hist[i], tool) = 1 /\ Launches(hist[j], tool) = 1)
                       => Entries(hist[i], "exec", tool)[1].b
                              = Entries(hist[j], "exec", tool)[1].b


\* C12: a complete event carries /download/subtitled_<jobId>.mp4, the name of
\* the file in the outputs directory that the burn of the same job wrote
\* before the event, and that file exists.
C12_DownloadNamesBurnOutput ==
    \A j \in Jobs :
        \A i \in 1..Len(hist[j]) :
            (hist[j][i].op = "emit" /\ hist[j][i].a = "complete") =>
                LET url == hist[j][i].b
                    file == <<OUTPUT_DIR>> \o Tail(url)
                IN  /\ url = <<"/download/", "subtitled_">>
                                 \o JobId(jobs[j].filePath) \o <<".", "mp4">>
                    /\ \E k \in 1..(i - 1) :
                           /\ hist[j][k].op = "write"
                           /\ hist[j][k].a = "burn"
                           /\ hist[j][k].b = file
                    /\ file \in disk


\* C13: no job writes, overwrites or removes an uploaded source video, which
\* stays on disk, and once a job is completed its subtitle file and its
\* rendered video are on disk.
C13_SourceAndOutputsKept ==
    \A j \in Jobs :
        /\ \A i \in Jobs : jobs[j].filePath \notin Touched(hist[i])
        /\ jobs[j].filePath \in disk
        /\ pc[j] = "completed" =>
               /\ GeneratedSrt(jobs[j].filePath) \in disk
               /\ FinalVideo(jobs[j].filePath) \in disk


\* h ends with the error event of the message and then its mirrored log
EndsInErrorThenLog(h, message) ==
    /\ Len(h) >= 2
    /\ h[Len(h) - 1].op = "emit" /\ h[Len(h) - 1].a = "error"
    /\ h[Len(h) - 1].b = message
    /\ h[Len(h)].op = "emit" /\ h[Len(h)].a = "log"
    /\ h[Len(h)].b = <<"Error: ">> \o message

\* C14: the error of a failed tool or of the missing subtitle file is turned
\* by the catch block into one error event followed by one log event with the
\* same message, and the job is then over: these are the last two entries of
\* its history in every later state, so no progress, no complete event and no
\* launch follows them; between the rejection and the error event the job
\* does nothing but, when exec threw in the handler turn, acknowledge the
\* upload.
C14_ErrorThenLogThenNothing ==
    \A j \in Jobs :
        LET h == hist[j]
        IN  /\ \A i \in 1..Len(h) :
                   (h[i].op = "settle" /\ h[i].b[1] = "reject") =>
                       /\ \A k \in (i + 1)..(Len(h) - 2) : h[k].op = "respond"
                       /\ EndsInErrorThenLog(h, Tail(h[i].b))
                       /\ Len(Emitted(h, "error")) = 1
                       /\ Emitted(h, "complete") = <<>>
                       /\ pc[j] = "failed"
            /\ MissingSrtFailure(j) =>
                   /\ EndsInErrorThenLog(h, MissingSrtMessage)
                   /\ Len(Emitted(h, "error")) = 1
                   /\ Emitted(h, "complete") = <<>>
                   /\ pc[j] = "failed"

C14_Witness ==
    \E j \in Jobs :
        /\ pc[j] = "failed"
        /\ Settled(hist[j], "burn", "reject")
        /\ EndsInErrorThenLog(hist[j], <<"stderr maxBuffer length exceeded">>)


\* C15: a job that ended in "failed" removed no file, and the audio file its
\* extraction wrote and the temporary subtitle copy it made are on disk.
C15_FailedJobLeavesFiles ==
    \A j \in Jobs :
        pc[j] = "failed" =>
            /\ \A i \in 1..Len(hist[j]) : hist[j][i].op # "unlink"
            /\ Entries(hist[j], "write", "extract") # <<>>
                   => AudioFile(jobs[j].filePath) \in disk
            /\ Entries(hist[j], "copyFile", "temp") # <<>>
                   => LocalSrt(jobs[j].filePath) \in disk


\* C16: runCommand, when the subprocess fails or cannot be spawned, sends
\* exactly one log event "Error: <message>" if it has a socket and nothing if
\* it has none, and in both cases rejects with the error of exec and does
\* nothing else; when the subprocess succeeds it sends no event and resolves.
C16_RunCommandContract ==
    \A j \in Jobs :
        pc[j] = "settled" =>
            LET h == hist[j]
                cmd == h[1].b
                last == h[Len(h)]
            IN  /\ last.op = "settle"
                /\ last.by = "runCommand"
                /\ IF last.b[1] = "reject"
                   THEN /\ Tail(last.b) \in { ExecErrorMessage(cmd, e) : e \in ExecErrors \cup ExecThrows }
                        /\ IF jobs[j].socket # Undefined
                           THEN /\ Len(h) = 3
                                /\ h[2].op = "emit" /\ h[2].a = "log"
                                /\ h[2].b = <<"Error: ">> \o Tail(last.b)
                           ELSE Len(h) = 2
                   ELSE /\ last.b = <<"resolve">>
                        /\ Len(h) = 2


\* the position in h of the first event of this kind, 0 if there is none
FirstEmit(h, kind) ==
    IF \E i \in 1..Len(h) : h[i].op = "emit" /\ h[i].a = kind
    THEN CHOOSE i \in 1..Len(h) :
             /\ h[i].op = "emit" /\ h[i].a = kind
             /\ \A k \in 1..(i - 1) : ~(h[k].op = "emit" /\ h[k].a = kind)
    ELSE 0

\* C17 as stated: a job that failed with the missing-subtitle-file error has
\* emitted no progress value above 30.
C17_NoProgressAbove30 ==
    \A j \in Jobs :
        MissingSrtFailure(j) =>
            \A i \in 1..Len(ProgressOf(hist[j])) : ProgressOf(hist[j])[i] <= 30

\* C17, amended: step 3 is announced and progress 60 is emitted after whisper
\* resolved and before the subtitle file is checked for, so a job that failed
\* with the missing-subtitle-file error has emitted exactly the progress
\* values 10, 30, 60, the 60 before the error event, and it has made no
\* temporary copy and launched no burn.
C17_Progress60BeforeSrtCheck ==
    \A j \in Jobs :
        LET h == hist[j]
        IN  /\ MissingSrtFailure(j) =>
                   /\ ProgressOf(h) = <<10, 30, 60>>
                   /\ \E i \in 1..Len(h) :
                          /\ h[i].op = "emit" /\ h[i].a = "progress"
                          /\ h[i].b = <<60>>
                          /\ i < FirstEmit(h, "error")
                   /\ Entries(h, "copyFile", "temp") = <<>>
                   /\ Launches(h, "burn") = 0
            /\ (\E i \in 1..Len(h) :
                    h[i].op = "emit" /\ h[i].a = "progress" /\ h[i].b = <<60>>)
                   => Settled(h, "whisper", "resolve")

C17_Witness ==
    \E j \in Jobs :
        /\ MissingSrtFailure(j)
        /\ pc[j] = "failed"
        /\ ProgressOf(hist[j]) = <<10, 30, 60>>


\* C18: no job emits both a complete event and an error event, also when the
\* removal of the audio file after the complete event fails.
C18_AtMostOneTerminalEvent ==
    \A j \in Jobs :
        ~ ( /\ Emitted(hist[j], "complete") # <<>>
            /\ Emitted(hist[j], "error") # <<>> )


\* C19: every subprocess eventually exiting, a job launched with a socket
\* eventually is completed or failed and has emitted a complete or an error
\* event.
C19_SubscribedJobTerminates ==
    \A j \in 1..MaxJobs :
        []( (j \in Jobs /\ jobs[j].socket # Undefined)
                => <>( /\ j \in Jobs
                       /\ pc[j] \in {"completed", "failed"}
                       /\ \/ Emitted(hist[j], "complete") # <<>>
                          \/ Emitted(hist[j], "error") # <<>> ) )

====
